---- MODULE Spec2Model ----
(***************************************************************************)
(* Model of the WINHMS sales-executive dashboards (Dashboard1.py,          *)
(* Dashboard2.py, Dashboard3.py): the spreadsheet cleaning step and the    *)
(* Streamlit script run that displays its result.                          *)
(*                                                                         *)
(* Text is a sequence of one-character strings.  A number is a decimal     *)
(* m * 10^-k kept in lowest terms (k = 0 or m not divisible by 10), or     *)
(* one of the float specials inf, -inf, nan.                               *)
(***************************************************************************)
EXTENDS Integers, Sequences, FiniteSets, TLC

(***************************************************************************)
(* Text                                                                    *)
(***************************************************************************)
UpperCase == <<"A","B","C","D","E","F","G","H","I","J","K","L","M",
               "N","O","P","Q","R","S","T","U","V","W","X","Y","Z">>

LowerCase == <<"a","b","c","d","e","f","g","h","i","j","k","l","m",
               "n","o","p","q","r","s","t","u","v","w","x","y","z">>

Digits == <<"0","1","2","3","4","5","6","7","8","9">>

IsSpace(c) == c = " "

\* case=False of str.contains: characters are compared lower-cased
LowerChar(c) ==
    IF \E i \in 1..Len(UpperCase) : UpperCase[i] = c
    THEN LowerCase[CHOOSE i \in 1..Len(UpperCase) : UpperCase[i] = c]
    ELSE c

Lower(s) == [i \in 1..Len(s) |-> LowerChar(s[i])]

\* substring search (str.contains with a literal alternative)
Contains(s, pat) ==
    \E i \in 1..(Len(s) - Len(pat) + 1) : SubSeq(s, i, i + Len(pat) - 1) = pat

\* str.startswith
StartsWith(s, pre) == Len(s) >= Len(pre) /\ SubSeq(s, 1, Len(pre)) = pre

\* str.replace(ch, "", regex=False)
RemoveChar(s, ch) == SelectSeq(s, LAMBDA c : c # ch)

\* str.strip()
Strip(s) ==
    IF \A i \in 1..Len(s) : IsSpace(s[i]) THEN <<>>
    ELSE LET a == CHOOSE i \in 1..Len(s) :
                     ~IsSpace(s[i]) /\ \A j \in 1..(i-1) : IsSpace(s[j])
             b == CHOOSE i \in 1..Len(s) :
                     ~IsSpace(s[i]) /\ \A j \in (i+1)..Len(s) : IsSpace(s[j])
         IN  SubSeq(s, a, b)

(***************************************************************************)
(* Numbers                                                                 *)
(***************************************************************************)
RECURSIVE Pow10(_)
Pow10(k) == IF k = 0 THEN 1 ELSE 10 * Pow10(k - 1)

Abs(n) == IF n < 0 THEN -n ELSE n

\* a cell / value: t is "blank", "text", "num", "inf", "ninf" or "nan"
Mk(t, s, m, k) == [t |-> t, s |-> s, m |-> m, k |-> k]

Blank == Mk("blank", <<>>, 0, 0)
Text(s) == Mk("text", s, 0, 0)
NaN == Mk("nan", <<>>, 0, 0)
PosInf == Mk("inf", <<>>, 0, 0)
NegInf == Mk("ninf", <<>>, 0, 0)

RECURSIVE Reduce(_, _)
Reduce(m, k) ==
    IF k > 0 /\ m % 10 = 0 THEN Reduce(m \div 10, k - 1) ELSE <<m, k>>

\* the float m * 10^-k
Num(m, k) == LET r == Reduce(m, k) IN Mk("num", <<>>, r[1], r[2])

IsDigit(c) == \E i \in 1..Len(Digits) : Digits[i] = c

DigitVal(c) == (CHOOSE i \in 1..Len(Digits) : Digits[i] = c) - 1

AllDigits(s) == \A i \in 1..Len(s) : IsDigit(s[i])

RECURSIVE DigitsValue(_)
DigitsValue(s) ==
    IF s = <<>> THEN 0
    ELSE 10 * DigitsValue(SubSeq(s, 1, Len(s) - 1)) + DigitVal(s[Len(s)])

RECURSIVE NatStr(_)
NatStr(n) ==
    IF n < 10 THEN <<Digits[n + 1]>>
    ELSE NatStr(n \div 10) \o <<Digits[(n % 10) + 1]>>

RECURSIVE PadLeft(_, _)
PadLeft(s, w) == IF Len(s) >= w THEN s ELSE PadLeft(<<"0">> \o s, w)

(***************************************************************************)
(* Conversions between cell text and numbers                               *)
(***************************************************************************)
Rupee == "₹"

Comma == ","

T_inf == <<"i","n","f">>
T_infinity == <<"i","n","f","i","n","i","t","y">>
T_nan == <<"n","a","n">>

\* position of the first "." of s, or 0
DotPos(s) ==
    IF \E i \in 1..Len(s) : s[i] = "."
    THEN CHOOSE i \in 1..Len(s) : s[i] = "." /\ \A j \in 1..(i-1) : s[j] # "."
    ELSE 0

\* an unsigned decimal literal: digits [ "." digits ], at least one digit
ParseUnsigned(s, sign) ==
    LET d == DotPos(s)
        ip == IF d = 0 THEN s ELSE SubSeq(s, 1, d - 1)
        fp == IF d = 0 THEN <<>> ELSE SubSeq(s, d + 1, Len(s))
    IN  IF AllDigits(ip) /\ AllDigits(fp) /\ Len(ip) + Len(fp) >= 1
        THEN Num(sign * (DigitsValue(ip) * Pow10(Len(fp)) + DigitsValue(fp)), Len(fp))
        ELSE NaN

\* what pd.to_numeric(errors="coerce") makes of a string: surrounding
\* whitespace is skipped, an optional sign, then inf / infinity / nan in any
\* casing or a decimal literal; anything else is NaN.  (Exponent notation is
\* not modelled: no cell of the model contains one.)
ParseFloat(s) ==
    LET t == Strip(s)
        signed == t # <<>> /\ t[1] \in {"+", "-"}
        sign == IF t # <<>> /\ t[1] = "-" THEN -1 ELSE 1
        body == IF signed THEN Tail(t) ELSE t
        low == Lower(body)
    IN  IF body = <<>> THEN NaN
        ELSE IF low = T_inf \/ low = T_infinity
             THEN (IF sign = 1 THEN PosInf ELSE NegInf)
        ELSE IF low = T_nan THEN NaN
        ELSE ParseUnsigned(body, sign)

\* pd.to_numeric(..., errors="coerce") on one cell
ToNumeric(c) ==
    IF c.t = "text" THEN ParseFloat(c.s)
    ELSE IF c.t = "blank" THEN NaN
    ELSE c

\* to_numeric without the fillna
FillNaMissing(v) == v

\* .fillna(0)
FillNa0(v) == IF v.t = "nan" THEN Num(0, 0) ELSE v

\* str() of a float (an integer-valued cell prints with or without ".0"
\* depending on the column dtype; both texts parse to the same number)
FloatStr(v) ==
    LET a == Abs(v.m)
        ip == NatStr(a \div Pow10(v.k))
        fp == IF v.k = 0 THEN <<"0">> ELSE PadLeft(NatStr(a % Pow10(v.k)), v.k)
    IN  (IF v.m < 0 THEN <<"-">> ELSE <<>>) \o ip \o <<".">> \o fp

\* .astype(str) on one cell
AsStr(c) ==
    IF c.t = "text" THEN c.s
    ELSE IF c.t = "num" THEN FloatStr(c)
    ELSE IF c.t = "inf" THEN T_inf
    ELSE IF c.t = "ninf" THEN <<"-">> \o T_inf
    ELSE T_nan

\* the text with the commas left in
CleanTextKeepCommas(c) == Strip(RemoveChar(AsStr(c), Rupee))

\* the text with the decimal point taken for a separator too
CleanTextNoDots(c) ==
    Strip(RemoveChar(RemoveChar(RemoveChar(AsStr(c), Rupee), Comma), "."))

\* Dashboard1.py lines 72-77: the text handed to to_numeric
CleanText(c) == Strip(RemoveChar(RemoveChar(AsStr(c), Rupee), Comma))

\* Dashboard1.py lines 72-78
NormalizeUploaded(c) == FillNa0(ToNumeric(Text(CleanText(c))))

\* Dashboard2.py / Dashboard3.py line 27
NormalizeFixed(c) == FillNa0(ToNumeric(c))

(***************************************************************************)
(* The cleaning step                                                       *)
(* A sheet is a sequence of rows of equal width, each a sequence of cells. *)
(* A frame is [cols, rows]: the column labels and the data rows.           *)
(***************************************************************************)
SkipRows == 3

T_Unnamed == <<"U","n","n","a","m","e","d">>

NameCol == "Sales Person Name"

Names8 == <<"Sales Person Name", "Nights", "Occupancy %", "Pax",
            "Room Revenue", "Revenue%", "ARR", "ARP">>

Names7 == <<"Sales Person Name", "Nights", "Occupancy %", "Pax",
            "Room Revenue", "ARR", "ARP">>

NumericCols == {"Nights", "Occupancy %", "Pax", "Room Revenue", "Revenue%", "ARR", "ARP"}

Columns == {NameCol} \cup NumericCols

ExclusionPatterns == { <<"T","o","t","a","l">>,
                       <<"N","o","t"," ","D","e","f","i","n","e","d">>,
                       <<"G","r","a","n","d"," ","T","o","t","a","l">> }

\* the label pandas gives column i (0-based position i-1) of the header row
HeaderLabel(c, i) ==
    IF c.t = "blank" THEN Text(T_Unnamed \o <<":", " ">> \o NatStr(i - 1)) ELSE c

\* read_excel reads a cell holding the empty string as missing (the default
\* na_values; of these only "" occurs in the cells of the model)
NaConvert(c) == IF c.t = "text" /\ c.s = <<>> THEN Blank ELSE c

FilledCells(row) == Cardinality({i \in 1..Len(row) : NaConvert(row[i]).t # "blank"})

\* a reader that looks for the header: the first of the rows at offsets 0..4
\* with five filled cells or more
ReadExcelDiscover(sheet) ==
    LET found == {o \in 0..4 : o < Len(sheet) /\ FilledCells(sheet[o + 1]) >= 5}
    IN  IF found = {} THEN [cols |-> <<>>, rows |-> <<>>]
        ELSE LET o == CHOOSE x \in found : \A y \in found : x <= y
             IN  [cols |-> [i \in 1..Len(sheet[o + 1]) |->
                               HeaderLabel(NaConvert(sheet[o + 1][i]), i)],
                  rows |-> [r \in 1..(Len(sheet) - o - 1) |->
                               [i \in 1..Len(sheet[o + 1 + r]) |->
                                   NaConvert(sheet[o + 1 + r][i])]]]

\* pd.read_excel(file, skiprows=3): the row after the skipped ones is the
\* header, the rows below it are the data; a sheet with no such row gives a
\* frame without columns
ReadExcel(sheet) ==
    IF Len(sheet) <= SkipRows THEN [cols |-> <<>>, rows |-> <<>>]
    ELSE [cols |-> [i \in 1..Len(sheet[SkipRows + 1]) |->
                       HeaderLabel(NaConvert(sheet[SkipRows + 1][i]), i)],
          rows |-> [r \in 1..(Len(sheet) - SkipRows - 1) |->
                       [i \in 1..Len(sheet[SkipRows + 1 + r]) |->
                           NaConvert(sheet[SkipRows + 1 + r][i])]]]

\* df.iloc[:, 1:]
DropFirstColumn(f) ==
    [cols |-> Tail(f.cols), rows |-> [r \in 1..Len(f.rows) |-> Tail(f.rows[r])]]

IndexOf(names, c) == CHOOSE i \in 1..Len(names) : names[i] = c

LabelKeyword(name) ==
    CASE name = NameCol -> <<"s","a","l","e","s">>
      [] name = "Nights" -> <<"n","i","g","h","t">>
      [] name = "Occupancy %" -> <<"o","c","c">>
      [] name = "Pax" -> <<"p","a","x">>
      [] name = "Room Revenue" -> <<"r","o","o","m">>
      [] name = "Revenue%" -> <<"r","e","v","%">>
      [] name = "ARR" -> <<"a","r","r">>
      [] OTHER -> <<"a","r","p">>

\* a renaming that looks at the labels: a field takes the first column whose
\* label holds its keyword, and its own position if there is none
RenameByLabel(f, names) ==
    [r \in 1..Len(f.rows) |->
        [c \in {names[i] : i \in 1..Len(names)} |->
            LET hits == {i \in 1..Len(f.cols) :
                            f.cols[i].t = "text" /\ Contains(Lower(f.cols[i].s), LabelKeyword(c))}
            IN  IF hits = {} THEN f.rows[r][IndexOf(names, c)]
                ELSE f.rows[r][CHOOSE i \in hits : \A j \in hits : i <= j]]]

\* df.columns = names: column i of the frame is called names[i], whatever
\* its label was.  A row becomes a record over the new names.
Rename(f, names) ==
    [r \in 1..Len(f.rows) |->
        [c \in {names[i] : i \in 1..Len(names)} |-> f.rows[r][IndexOf(names, c)]]]

\* df['Revenue%'] = 0
AddRevenuePct(rows) ==
    [r \in 1..Len(rows) |->
        [c \in Columns |-> IF c = "Revenue%" THEN Num(0, 0) ELSE rows[r][c]]]

\* the mask without case=False
MatchesExclusionCaseSensitive(c) ==
    /\ c.t = "text"
    /\ \E p \in ExclusionPatterns : Contains(c.s, p)

\* str.contains('Total|Not Defined|Grand Total', case=False, na=False)
MatchesExclusion(c) ==
    /\ c.t = "text"
    /\ \E p \in ExclusionPatterns : Contains(Lower(c.s), Lower(p))

\* the .str accessor exists on an object column only: a column with rows
\* none of which is text is a float column
HasStrAccessor(rows) ==
    rows = <<>> \/ \E r \in 1..Len(rows) : rows[r][NameCol].t = "text"

\* dropna(subset=[name]) then the ~contains mask
KeepRow(row) == row[NameCol].t # "blank" /\ ~MatchesExclusion(row[NameCol])

FilterRows(rows) == SelectSeq(rows, KeepRow)

\* the loop over numeric_cols, with the clean-up of Dashboard1 (stripped) or
\* without it
NormalizeRows(rows, stripped) ==
    [r \in 1..Len(rows) |->
        [c \in Columns |->
            IF c \notin NumericCols THEN rows[r][c]
            ELSE IF stripped THEN NormalizeUploaded(rows[r][c])
            ELSE NormalizeFixed(rows[r][c])]]

Ok(rows) == [err |-> "none", rows |-> rows]

Raise(e) == [err |-> e, rows |-> <<>>]

\* Dashboard1.py clean_uploaded_data, lines 62-80, on the renamed rows
FinishUploaded(rows) ==
    IF ~HasStrAccessor(rows) THEN Raise("AttributeError")
    ELSE Ok(NormalizeRows(FilterRows(rows), TRUE))

\* a cleaning that knows the eight-column sheet only
clean_uploaded_data_8only(sheet) ==
    LET f0 == ReadExcel(sheet)
    IN  IF f0.cols = <<>> THEN Raise("IndexError")
        ELSE IF f0.cols[1].t # "text" THEN Raise("AttributeError")
        ELSE LET f == IF StartsWith(f0.cols[1].s, T_Unnamed)
                      THEN DropFirstColumn(f0) ELSE f0
             IN  IF Len(f.cols) = 8 THEN FinishUploaded(Rename(f, Names8))
                 ELSE Raise("ValueError")

\* a cleaning that fills every column a narrow sheet lacks with 0
clean_uploaded_data_defaulting(sheet) ==
    LET f0 == ReadExcel(sheet)
    IN  IF f0.cols = <<>> THEN Raise("IndexError")
        ELSE IF f0.cols[1].t # "text" THEN Raise("AttributeError")
        ELSE LET f == IF StartsWith(f0.cols[1].s, T_Unnamed)
                      THEN DropFirstColumn(f0) ELSE f0
                 col_count == Len(f.cols)
             IN  IF col_count = 8 THEN FinishUploaded(Rename(f, Names8))
                 ELSE IF col_count = 7
                      THEN FinishUploaded(AddRevenuePct(Rename(f, Names7)))
                 ELSE IF col_count > 8 THEN Raise("ValueError")
                 ELSE FinishUploaded(
                        [r \in 1..Len(f.rows) |->
                            [c \in Columns |->
                                IF IndexOf(Names8, c) <= col_count
                                THEN f.rows[r][IndexOf(Names8, c)] ELSE Num(0, 0)]])

\* Dashboard1.py clean_uploaded_data
clean_uploaded_data(sheet) ==
    LET f0 == ReadExcel(sheet)
    IN  IF f0.cols = <<>> THEN Raise("IndexError")
        ELSE IF f0.cols[1].t # "text" THEN Raise("AttributeError")
        ELSE LET f == IF StartsWith(f0.cols[1].s, T_Unnamed)
                      THEN DropFirstColumn(f0) ELSE f0
                 col_count == Len(f.cols)
             IN  IF col_count = 8 THEN FinishUploaded(Rename(f, Names8))
                 ELSE IF col_count = 7
                      THEN FinishUploaded(AddRevenuePct(Rename(f, Names7)))
                 ELSE Raise("ValueError")

\* Dashboard2.py / Dashboard3.py lines 18-29, on a frame
FinishFixed(f) ==
    IF Len(f.cols) # 8 THEN Raise("ValueError")
    ELSE LET rows == Rename(f, Names8)
         IN  IF ~HasStrAccessor(rows) THEN Raise("AttributeError")
             ELSE Ok(NormalizeRows(FilterRows(rows), FALSE))

\* Dashboard2.py load_lnl_data: the first column is always dropped
load_lnl_data(sheet) ==
    LET f0 == ReadExcel(sheet)
    IN  FinishFixed(IF f0.cols = <<>> THEN f0 ELSE DropFirstColumn(f0))

\* Dashboard3.py load_kum_data: no column is dropped
load_kum_data(sheet) == FinishFixed(ReadExcel(sheet))


(***************************************************************************)
(* The inputs: the texts of the cells, the rows and the sheets             *)
(***************************************************************************)
N_Sharma == <<"A","."," ","S","h","a","r","m","a">>

N_Rao == <<"B","."," ","R","a","o">>

N_GrandTotal == <<"G","r","a","n","d"," ","T","o","t","a","l">>

N_NotDefined == <<" "," ","N","o","t"," ","D","e","f","i","n","e","d"," ">>

N_Empty == <<>>

N_Space == <<" ">>

N_TotallyAwesome == <<"T","o","t","a","l","l","y"," ","A","w","e","s","o","m","e">>

N_Undefined == <<"U","n","d","e","f","i","n","e","d">>

N_TOTAL == <<"T","O","T","A","L">>

X_Rupees == <<"₹","1",",","2","0",",","0","0","0",".","0","0">>

X_Plain == <<"1","2","3","4",".","5","0">>

X_RupeesSmall == <<"₹","1",",","2","3","4",".","5","0">>

X_Negative == <<"-","5">>

X_Percent == <<"5","5",".","5","%">>

X_Word == <<"a","b","c">>

X_Inf == <<"I","n","f","i","n","i","t","y">>

X_NegInf == <<"-","i","n","f">>

X_Padded == <<" ","4","2"," ">>

X_Empty == <<>>

H_Name == <<"S","a","l","e","s"," ","E","x","e","c","u","t","i","v","e">>

H_Nights == <<"N","i","g","h","t","s">>

H_Occ == <<"O","c","c"," ","%">>

H_Pax == <<"P","a","x">>

H_Rev == <<"R","o","o","m"," ","R","e","v","e","n","u","e">>

H_RevPct == <<"R","e","v","%">>

H_ARR == <<"A","R","R">>

H_ARP == <<"A","R","P">>

H_ShortName == <<"N","a","m","e">>

H_Qty == <<"Q","t","y">>

H_Comments == <<"C","o","m","m","e","n","t","s">>

H_Title == <<"R","e","p","o","r","t">>

T_12pct == <<"1","2","%">>
T_3000 == <<"₹","3",",","0","0","0",".","0","0">>
T_ok == <<"o","k">>

NameTexts == {N_Sharma, N_Rao, N_GrandTotal, N_NotDefined, N_Empty, N_Space,
              N_TotallyAwesome, N_Undefined, N_TOTAL}

\* the name cells: the texts, and a cell left blank
NameCells == {Text(n) : n \in NameTexts} \cup {Blank}

\* the cells tried in a numeric column: texts as exported by the PMS, texts
\* that are no number, numeric cells and a blank
ProbeCells == {Text(x) : x \in {X_Rupees, X_Plain, X_RupeesSmall, X_Negative, X_Percent,
                                X_Word, X_Inf, X_NegInf, X_Padded, X_Empty}}
              \cup {Blank, Num(10, 0), Num(-75, 1)}

\* the cells tried in the Nights column, whose sum the script turns into an
\* int
NightsCells == {Text(X_Inf), Text(X_Negative), Blank}

\* the fields of a source row: the eight of the report, two foreign ones
\* and "" for an empty column
SourceFields == Columns \cup {"Qty", "Comments", ""}

TypicalRow(name) ==
    [f \in SourceFields |->
        CASE f = NameCol -> name
          [] f = "Nights" -> Num(10, 0)
          [] f = "Occupancy %" -> Num(555, 1)
          [] f = "Pax" -> Num(4, 0)
          [] f = "Room Revenue" -> Text(X_Rupees)
          [] f = "Revenue%" -> Text(T_12pct)
          [] f = "ARR" -> Num(12000, 0)
          [] f = "ARP" -> Text(T_3000)
          [] f = "Qty" -> Num(7, 0)
          [] f = "Comments" -> Text(T_ok)
          [] OTHER -> Blank]

RaoRow ==
    [f \in SourceFields |->
        CASE f = NameCol -> Text(N_Rao)
          [] f = "Nights" -> Num(3, 0)
          [] f = "Occupancy %" -> Num(20, 0)
          [] f = "Pax" -> Num(2, 0)
          [] f = "Room Revenue" -> Num(4550050, 2)
          [] f = "Revenue%" -> Num(5, 0)
          [] f = "ARR" -> Num(1516683, 2)
          [] f = "ARP" -> Num(7000, 0)
          [] f = "Qty" -> Num(9, 0)
          [] f = "Comments" -> Blank
          [] OTHER -> Blank]

\* the first data row of a sheet: any name with typical figures, or a usual
\* name with one probe cell
FirstRows ==
    {TypicalRow(n) : n \in NameCells}
    \cup {[TypicalRow(Text(N_Sharma)) EXCEPT !["Room Revenue"] = x] : x \in ProbeCells}
    \cup {[TypicalRow(Text(N_Sharma)) EXCEPT !["Nights"] = x] : x \in NightsCells}

\* the rows that follow it, in this order, as many as the sheet has (a sheet
\* has the first row alone or MaxExtraRows more)
FollowingRows == <<RaoRow, TypicalRow(Text(N_GrandTotal))>>

MaxExtraRows == 2

MaxHeaderOffset == 5

Col(field, label) == [field |-> field, label |-> label]

UpperChar(c) ==
    IF \E i \in 1..Len(LowerCase) : LowerCase[i] = c
    THEN UpperCase[CHOOSE i \in 1..Len(LowerCase) : LowerCase[i] = c]
    ELSE c

Upper(s) == [i \in 1..Len(s) |-> UpperChar(s[i])]

Layout8 == << Col(NameCol, H_Name), Col("Nights", H_Nights), Col("Occupancy %", H_Occ),
              Col("Pax", H_Pax), Col("Room Revenue", H_Rev), Col("Revenue%", H_RevPct),
              Col("ARR", H_ARR), Col("ARP", H_ARP) >>

Without(layout, field) == SelectSeq(layout, LAMBDA c : c.field # field)

Swap(layout, i, j) ==
    [n \in 1..Len(layout) |-> IF n = i THEN layout[j] ELSE IF n = j THEN layout[i] ELSE layout[n]]

Reverse(layout) == [n \in 1..Len(layout) |-> layout[Len(layout) + 1 - n]]

UpperLabels(layout) ==
    [n \in 1..Len(layout) |-> Col(layout[n].field, Upper(layout[n].label))]

EmptyCol == Col("", <<>>)

\* the column arrangements of the sheets
Layouts ==
    { Layout8,                                   \* the eight columns of the report
      Without(Layout8, "Revenue%"),              \* the seven-column report
      <<EmptyCol>> \o Layout8,                   \* an empty first column (LNL export)
      <<EmptyCol>> \o Without(Layout8, "Revenue%"),
      UpperLabels(Layout8),                      \* other casing of the labels
      Swap(Layout8, 2, 4),                       \* Nights and Pax exchanged
      Reverse(Layout8),                          \* the eight columns, last first
      Without(Layout8, "Pax"),                   \* seven columns, Pax missing
      << Col(NameCol, H_Name), Col("Room Revenue", H_Rev) >>,
      << Col(NameCol, H_ShortName), Col("Qty", H_Qty), Col("Comments", H_Comments) >> }

LabelCell(label) == IF label = <<>> THEN Blank ELSE Text(label)

HeaderRow(layout) == [n \in 1..Len(layout) |-> LabelCell(layout[n].label)]

SheetRow(layout, row) == [n \in 1..Len(layout) |-> row[layout[n].field]]

\* a title line above the header: one text cell, the others blank
TitleRow(layout) == [n \in 1..Len(layout) |-> IF n = 1 THEN Text(H_Title) ELSE Blank]

\* the sheet with h title rows, then the header, then the data rows
MkSheet(h, layout, first, extra) ==
    [n \in 1..h |-> TitleRow(layout)]
    \o <<HeaderRow(layout), SheetRow(layout, first)>>
    \o [n \in 1..extra |-> SheetRow(layout, FollowingRows[((n - 1) % Len(FollowingRows)) + 1])]

\* a file, named by how its sheet is laid out
File(h, layout, first, extra) ==
    [present |-> TRUE, h |-> h, layout |-> layout, first |-> first, extra |-> extra]

\* the content of a file
SheetOf(src) == MkSheet(src.h, src.layout, src.first, src.extra)

Files ==
    { File(h, layout, first, extra) :
        h \in 0..MaxHeaderOffset, layout \in Layouts, first \in FirstRows,
        extra \in {0, MaxExtraRows} }

\* the files of a longer session: the report, the LNL export with its empty
\* first column (two of them), a foreign sheet, a report with a refund
SessionFiles ==
    { File(SkipRows, Layout8, TypicalRow(Text(N_Sharma)), 1),
      File(SkipRows, <<EmptyCol>> \o Layout8, TypicalRow(Text(N_Undefined)), 2),
      File(SkipRows, <<EmptyCol>> \o Layout8, TypicalRow(Text(N_Sharma)), 1),
      File(SkipRows, << Col(NameCol, H_ShortName), Col("Qty", H_Qty), Col("Comments", H_Comments) >>,
           TypicalRow(Text(N_Sharma)), 1),
      File(SkipRows, Layout8, [TypicalRow(Text(N_Sharma)) EXCEPT !["Room Revenue"] = Text(X_Negative)], 0) }

MaxUploads == 2


(***************************************************************************)
(* Aggregates of the KPI cards                                             *)
(***************************************************************************)
Max(a, b) == IF a >= b THEN a ELSE b

\* float addition
Add(a, b) ==
    IF a.t = "nan" \/ b.t = "nan" THEN NaN
    ELSE IF a.t = "num" /\ b.t = "num"
         THEN LET k == Max(a.k, b.k)
              IN  Num(a.m * Pow10(k - a.k) + b.m * Pow10(k - b.k), k)
    ELSE IF a.t = "num" THEN b
    ELSE IF b.t = "num" \/ a.t = b.t THEN a
    ELSE NaN

RECURSIVE SumCol(_, _)
\* Series.sum() of a column (0 for no rows)
SumCol(rows, c) ==
    IF rows = <<>> THEN Num(0, 0)
    ELSE Add(SumCol(SubSeq(rows, 1, Len(rows) - 1), c), rows[Len(rows)][c])

\* Series.mean(): the sum and the count it is divided by; NaN for no rows
MeanCol(rows, c) ==
    LET total == SumCol(rows, c)
    IN  IF rows = <<>> THEN [t |-> "nan", sum |-> Num(0, 0), n |-> 0]
        ELSE [t |-> total.t, sum |-> total, n |-> Len(rows)]

\* the exception int(x) raises on a float, or "none"
IntError(v) ==
    IF v.t = "nan" THEN "ValueError"
    ELSE IF v.t \in {"inf", "ninf"} THEN "OverflowError"
    ELSE "none"

\* int(x): truncation towards zero
IntOf(v) == IF v.m >= 0 THEN v.m \div Pow10(v.k) ELSE -((-v.m) \div Pow10(v.k))

\* format_inr(amount) indexes parts[1] of f"{amount:,.2f}" split at ".":
\* the text of inf and nan has no "." and the index raises
FormatInrError(t) == IF t \in {"nan", "inf", "ninf"} THEN "IndexError" ELSE "none"

RECURSIVE GroupByThree(_)
\* the "," option of the format: the digits in groups of three from the right
GroupByThree(d) ==
    IF Len(d) <= 3 THEN d
    ELSE GroupByThree(SubSeq(d, 1, Len(d) - 3)) \o <<Comma>> \o SubSeq(d, Len(d) - 2, Len(d))

\* the hundredths the amount sum / n is rounded to by the ".2f" of the
\* format, sign apart.  An amount halfway between two hundredths goes the
\* way its binary float lies, which the decimal value does not tell: both
\* ways are results.
RoundedHundredths(sum, n) ==
    LET d == Pow10(sum.k) * n
        a == 100 * Abs(sum.m)
        q == a \div d
        r == a % d
    IN  IF 2 * r < d THEN {q}
        ELSE IF 2 * r > d THEN {q + 1}
        ELSE {q, q + 1}

\* the texts f"{amount:,.2f}" can give for the amount sum / n (n = 0: the
\* mean of no rows, NaN)
FormatTwoDecimals(sum, n) ==
    IF n = 0 \/ sum.t = "nan" THEN {T_nan}
    ELSE IF sum.t = "inf" THEN {T_inf}
    ELSE IF sum.t = "ninf" THEN {<<"-">> \o T_inf}
    ELSE {(IF sum.m < 0 THEN <<"-">> ELSE <<>>)
             \o GroupByThree(NatStr(q \div 100)) \o <<".">> \o PadLeft(NatStr(q % 100), 2) :
          q \in RoundedHundredths(sum, n)}

RECURSIVE GroupByTwo(_)
\* ",".join of the pieces rest[max(i-2, 0):i] taken from the right
GroupByTwo(rest) ==
    IF Len(rest) <= 2 THEN rest
    ELSE GroupByTwo(SubSeq(rest, 1, Len(rest) - 2)) \o <<Comma>>
            \o SubSeq(rest, Len(rest) - 1, Len(rest))

\* format_inr from s = f"{amount:,.2f}" on (float(amount) does not fail on a
\* float): s is split at ".", the commas leave the first part, and the
\* part after the "." is used whether there is one or not
format_inr(s) ==
    LET d == DotPos(s)
        parts0 == IF d = 0 THEN s ELSE SubSeq(s, 1, d - 1)
        integer == RemoveChar(parts0, Comma)
        last3 == SubSeq(integer, Len(integer) - 2, Len(integer))
        rest == SubSeq(integer, 1, Len(integer) - 3)
    IN  IF d = 0 THEN [err |-> "IndexError", text |-> <<>>]
        ELSE LET parts1 == LET t == SubSeq(s, d + 1, Len(s))
                           IN  IF DotPos(t) = 0 THEN t ELSE SubSeq(t, 1, DotPos(t) - 1)
             IN  IF Len(integer) > 3
                 THEN [err |-> "none",
                       text |-> <<Rupee>> \o GroupByTwo(rest) \o <<Comma>> \o last3
                                   \o <<".">> \o parts1]
                 ELSE [err |-> "none", text |-> <<Rupee>> \o integer \o <<".">> \o parts1]

IsNegative(v) == v.t = "ninf" \/ (v.t = "num" /\ v.m < 0)

\* px.scatter(size='Room Revenue'): a marker size below 0 is rejected
ScatterError(rows) ==
    IF \E r \in 1..Len(rows) : IsNegative(rows[r]["Room Revenue"])
    THEN "ValueError" ELSE "none"

(***************************************************************************)
(* The script run                                                          *)
(***************************************************************************)
VARIABLES
    app,          \* which dashboard script this is
    source,       \* the uploaded file (Dashboard1) or the file at file_path
    cache,        \* st.cache_data of the loader: entries [key, rows]
    pc,           \* position of the running script, "done" between runs
    df,           \* the script's df
    selected,     \* selected_names
    filtered_df,  \* filtered_df
    kpi,          \* the KPI values
    rendered,     \* the elements this run has put on the page
    err,          \* the exception the run ended with
    uploads,      \* number of files given so far
    fig_rev,      \* the rows handed to px.bar for fig_rev
    shown_table,  \* the rows handed to st.dataframe
    kpi_text      \* the amounts as the KPI cards show them

vars == <<app, source, cache, pc, df, selected, filtered_df, kpi, rendered, err, uploads,
          fig_rev, shown_table, kpi_text>>

Apps == {"Dashboard1", "Dashboard2", "Dashboard3"}

NoSource == [present |-> FALSE, h |-> 0, layout |-> <<>>, first |-> RaoRow, extra |-> 0]

NoTable == [present |-> FALSE, rows |-> <<>>]

NoError == [kind |-> "none", at |-> "none"]

NoKpiText == [revenue |-> <<>>, arr |-> <<>>]

NoKpi == [total_revenue |-> Num(0, 0), total_nights |-> 0,
          avg_arr |-> MeanCol(<<>>, "ARR"), total_pax |-> 0]

\* the loader of each script, on the file it is given
Loader(a, src) ==
    IF ~src.present THEN Raise("FileNotFoundError")
    ELSE IF a = "Dashboard1" THEN clean_uploaded_data(SheetOf(src))
    ELSE IF a = "Dashboard2" THEN load_lnl_data(SheetOf(src))
    ELSE load_kum_data(SheetOf(src))

\* st.cache_data keys an entry on the arguments of the call: the uploaded
\* file's content for clean_uploaded_data(uploaded_file), nothing for
\* load_lnl_data() and load_kum_data()
CacheKey(a, src) == IF a = "Dashboard1" THEN <<SheetOf(src)>> ELSE <<>>

CacheHit(c, key) == \E e \in c : e.key = key

CacheGet(c, key) == (CHOOSE e \in c : e.key = key).rows

\* the cached call: a stored result is returned without running the loader;
\* a call that raises stores nothing
CachedLoad(a, src, c) ==
    IF CacheHit(c, CacheKey(a, src)) THEN Ok(CacheGet(c, CacheKey(a, src)))
    ELSE Loader(a, src)

CacheAfter(a, src, c, r) ==
    IF r.err = "none" /\ ~CacheHit(c, CacheKey(a, src))
    THEN c \cup {[key |-> CacheKey(a, src), rows |-> r.rows]}
    ELSE c

\* a handler that reports the error and lets the script go on
PcAfterLoadContinue(r) == "sidebar"

\* try: df = loader(...) ... except Exception: st.error(...)
PcAfterLoad(r) == IF r.err = "none" THEN "sidebar" ELSE "done"

TableAfterLoad(r) == IF r.err = "none" THEN [present |-> TRUE, rows |-> r.rows] ELSE NoTable

UniqueNames(rows) == {rows[r][NameCol] : r \in 1..Len(rows)}

\* what the multiselect returns here: all options (the default), none, or
\* all but the name of the first row
Selections(rows) ==
    {UniqueNames(rows), {}}
    \cup (IF rows = <<>> THEN {} ELSE {UniqueNames(rows) \ {rows[1][NameCol]}})

FilterSelected(rows, sel) == SelectSeq(rows, LAMBDA row : row[NameCol] \in sel)

\* a run of the script starts: nothing of the previous run is kept but the
\* cache
BeginRun ==
    /\ pc' = "load"
    /\ df' = NoTable
    /\ selected' = {}
    /\ filtered_df' = <<>>
    /\ kpi' = NoKpi
    /\ rendered' = {}
    /\ err' = NoError
    /\ fig_rev' = <<>>
    /\ shown_table' = <<>>
    /\ kpi_text' = NoKpiText

InitRun ==
    /\ cache = {}
    /\ pc = "load"
    /\ df = NoTable
    /\ selected = {}
    /\ filtered_df = <<>>
    /\ kpi = NoKpi
    /\ rendered = {}
    /\ err = NoError
    /\ uploads = 0
    /\ fig_rev = <<>>
    /\ shown_table = <<>>
    /\ kpi_text = NoKpiText

\* Dashboard1 starts without a file; Dashboard2 and Dashboard3 read the file
\* that is at file_path, if there is one
InitFrom(files) ==
    /\ app \in Apps
    /\ source \in (IF app = "Dashboard1" THEN {NoSource}
                   ELSE {NoSource} \cup files)
    /\ InitRun

Init == InitFrom(Files)

\* st.file_uploader returns a new file: the script runs again
CanUpload == app = "Dashboard1" /\ pc = "done"

Upload(f) ==
    /\ CanUpload
    /\ source' = f
    /\ uploads' = uploads + 1
    /\ BeginRun
    /\ UNCHANGED <<app, cache>>

\* the file at file_path is replaced and the page is loaded again
\* (Dashboard2, Dashboard3)
CanReplace == app # "Dashboard1" /\ pc = "done"

ReplaceSource(f) ==
    /\ CanReplace
    /\ source' = f
    /\ uploads' = uploads + 1
    /\ BeginRun
    /\ UNCHANGED <<app, cache>>

\* any interaction or reload runs the script again on the same source
Rerun ==
    /\ pc = "done"
    /\ BeginRun
    /\ UNCHANGED <<app, source, cache, uploads>>

\* Dashboard1.py lines 116-119, 240-244; Dashboard2/3.py lines 31-32, 141-142
LoadData ==
    /\ pc = "load"
    /\ IF app = "Dashboard1" /\ ~source.present
       THEN /\ rendered' = {"info"}
            /\ pc' = "done"
            /\ UNCHANGED <<cache, df, err>>
       ELSE LET r == CachedLoad(app, source, cache)
            IN  /\ cache' = CacheAfter(app, source, cache, r)
                /\ df' = TableAfterLoad(r)
                /\ pc' = PcAfterLoad(r)
                /\ err' = IF r.err = "none" THEN NoError ELSE [kind |-> r.err, at |-> "load"]
                /\ rendered' = IF r.err = "none" THEN rendered ELSE {"error"}
    /\ UNCHANGED <<app, source, selected, filtered_df, kpi, kpi_text, uploads, fig_rev, shown_table>>

\* sorted(df['Sales Person Name'].unique()) of Dashboard2 and Dashboard3
\* compares the names with one another: a text and a number do not compare.
\* Dashboard1 hands the names to the multiselect unsorted.
SidebarError(a, rows) ==
    IF /\ a # "Dashboard1"
       /\ \E n \in UniqueNames(rows) : n.t = "text"
       /\ \E n \in UniqueNames(rows) : n.t # "text"
    THEN "TypeError" ELSE "none"

\* Dashboard1.py lines 121-129; Dashboard2/3.py lines 34-43
RenderSidebar ==
    /\ pc = "sidebar"
    /\ IF SidebarError(app, df.rows) # "none"
       THEN /\ err' = [kind |-> SidebarError(app, df.rows), at |-> "sidebar"]
            /\ rendered' = rendered \cup {"error"}
            /\ pc' = "done"
            /\ UNCHANGED <<selected, filtered_df>>
       ELSE /\ \E sel \in Selections(df.rows) :
                  /\ selected' = sel
                  /\ filtered_df' = FilterSelected(df.rows, sel)
            /\ rendered' = rendered \cup {"sidebar"}
            /\ pc' = "kpi"
            /\ err' = err
    /\ UNCHANGED <<app, source, cache, df, kpi, kpi_text, uploads, fig_rev, shown_table>>

\* the first exception of the KPI section, and the cards shown before it
KpiOutcome(a, rows) ==
    LET total_revenue == SumCol(rows, "Room Revenue")
        nights == SumCol(rows, "Nights")
        avg_arr == MeanCol(rows, "ARR")
        pax == SumCol(rows, "Pax")
    IN  IF IntError(nights) # "none" THEN [err |-> IntError(nights), cards |-> {}]
        ELSE IF a # "Dashboard1"
             THEN [err |-> "none", cards |-> {"card_revenue", "card_nights", "card_arr"}]
        ELSE IF IntError(pax) # "none" THEN [err |-> IntError(pax), cards |-> {}]
        ELSE IF FormatInrError(total_revenue.t) # "none"
             THEN [err |-> "IndexError", cards |-> {}]
        ELSE IF FormatInrError(avg_arr.t) # "none"
             THEN [err |-> "IndexError", cards |-> {"card_revenue", "card_nights"}]
        ELSE [err |-> "none",
              cards |-> {"card_revenue", "card_nights", "card_arr", "card_pax"}]

KpiValues(a, rows) ==
    [total_revenue |-> SumCol(rows, "Room Revenue"),
     total_nights |-> IF IntError(SumCol(rows, "Nights")) = "none"
                      THEN IntOf(SumCol(rows, "Nights")) ELSE 0,
     avg_arr |-> MeanCol(rows, "ARR"),
     total_pax |-> IF a = "Dashboard1" /\ IntError(SumCol(rows, "Pax")) = "none"
                   THEN IntOf(SumCol(rows, "Pax")) ELSE 0]

\* the amounts on the cards that are shown: Dashboard1 passes them through
\* format_inr, Dashboard2 and Dashboard3 write f"₹ {total_rev:,.2f}" and
\* f"₹{avg_arr:,.2f}"
KpiTexts(a, cards, rev, arr) ==
    [revenue |-> IF "card_revenue" \notin cards THEN <<>>
                 ELSE IF a = "Dashboard1" THEN format_inr(rev).text
                 ELSE <<Rupee, " ">> \o rev,
     arr |-> IF "card_arr" \notin cards THEN <<>>
             ELSE IF a = "Dashboard1" THEN format_inr(arr).text
             ELSE <<Rupee>> \o arr]

\* Dashboard1.py lines 131-173; Dashboard2/3.py lines 45-67
RenderKpis ==
    /\ pc = "kpi"
    /\ LET o == KpiOutcome(app, filtered_df)
           avg_arr == MeanCol(filtered_df, "ARR")
       IN  /\ kpi' = IF o.err = "none" THEN KpiValues(app, filtered_df) ELSE kpi
           /\ \E rev \in FormatTwoDecimals(SumCol(filtered_df, "Room Revenue"), 1),
                 arr \in FormatTwoDecimals(avg_arr.sum, avg_arr.n) :
                 kpi_text' = KpiTexts(app, o.cards, rev, arr)
           /\ rendered' = rendered \cup o.cards \cup (IF o.err = "none" THEN {} ELSE {"error"})
           /\ err' = IF o.err = "none" THEN err ELSE [kind |-> o.err, at |-> "kpi"]
           /\ pc' = IF o.err = "none" THEN "charts" ELSE "done"
    /\ UNCHANGED <<app, source, cache, df, selected, filtered_df, uploads, fig_rev, shown_table>>

\* the order of two floats (the table holds no NaN)
LessEq(a, b) ==
    IF a.t = "ninf" \/ b.t = "inf" THEN TRUE
    ELSE IF a.t = "inf" \/ b.t = "ninf" THEN FALSE
    ELSE LET k == Max(a.k, b.k)
         IN  a.m * Pow10(k - a.k) <= b.m * Pow10(k - b.k)

\* the rows without the i-th
DropRow(rows, i) == SubSeq(rows, 1, i - 1) \o SubSeq(rows, i + 1, Len(rows))

RECURSIVE SortValues(_, _)
\* rows.sort_values(c, ascending=True): a new frame with the rows in
\* ascending order of c; the default sort is not stable, rows that are equal
\* in c come in any order.  Each result starts with a row that is least in c
\* and goes on with a sorted frame of the others.
SortValues(rows, c) ==
    IF rows = <<>> THEN {<<>>}
    ELSE LET least == {i \in 1..Len(rows) :
                          \A j \in 1..Len(rows) : LessEq(rows[i][c], rows[j][c])}
         IN  UNION { {<<rows[i]>> \o q : q \in SortValues(DropRow(rows, i), c)} :
                     i \in least }

\* a sort that orders the frame itself
RenderChartsInPlace ==
    /\ pc = "charts"
    /\ \E sorted \in SortValues(filtered_df, "Room Revenue") :
          /\ fig_rev' = sorted
          /\ filtered_df' = sorted
    /\ LET e == ScatterError(filtered_df)
       IN  /\ rendered' = rendered \cup {"chart_first", "chart_bar"}
                          \cup (IF e = "none" THEN {"chart_scatter"} ELSE {"error"})
           /\ err' = IF e = "none" THEN err ELSE [kind |-> e, at |-> "charts"]
           /\ pc' = IF e = "none" THEN "table" ELSE "done"
    /\ UNCHANGED <<app, source, cache, df, selected, kpi, kpi_text, uploads, shown_table>>

\* Dashboard1.py lines 175-225 (bar, pie, scatter); Dashboard2/3.py lines
\* 71-126 (treemap, bar, scatter).  The bar chart is drawn from a sorted copy
\* of filtered_df, the others from filtered_df; the scatter comes last.
RenderCharts ==
    /\ pc = "charts"
    /\ \E sorted \in SortValues(filtered_df, "Room Revenue") : fig_rev' = sorted
    /\ LET e == ScatterError(filtered_df)
       IN  /\ rendered' = rendered \cup {"chart_first", "chart_bar"}
                          \cup (IF e = "none" THEN {"chart_scatter"} ELSE {"error"})
           /\ err' = IF e = "none" THEN err ELSE [kind |-> e, at |-> "charts"]
           /\ pc' = IF e = "none" THEN "table" ELSE "done"
    /\ UNCHANGED <<app, source, cache, df, selected, filtered_df, kpi, kpi_text, uploads, shown_table>>

\* Dashboard1.py lines 227-238; Dashboard2/3.py lines 128-139
RenderTable ==
    /\ pc = "table"
    /\ shown_table' = filtered_df
    /\ rendered' = rendered \cup {"table"}
    /\ pc' = "done"
    /\ UNCHANGED <<app, source, cache, df, selected, filtered_df, kpi, kpi_text, err, uploads, fig_rev>>

\* one file per run of the application, any file
Next ==
    \/ (uploads = 0 /\ CanUpload /\ \E f \in Files : Upload(f))
    \/ Rerun
    \/ LoadData
    \/ RenderSidebar
    \/ RenderKpis
    \/ RenderCharts
    \/ RenderTable

Spec == Init /\ [][Next]_vars

\* a session: a few files one after the other, with the script run again in
\* between
InitSession == InitFrom(SessionFiles)

NextSession ==
    \/ (uploads < MaxUploads /\ CanUpload /\ \E f \in SessionFiles : Upload(f))
    \/ (uploads < MaxUploads /\ CanReplace /\ \E f \in SessionFiles : ReplaceSource(f))
    \/ Rerun
    \/ LoadData
    \/ RenderSidebar
    \/ RenderKpis
    \/ RenderCharts
    \/ RenderTable

SpecSession == InitSession /\ [][NextSession]_vars


(***************************************************************************)
(* What the claims speak of: the sheet the loader was given, read without  *)
(* the loader's help                                                       *)
(***************************************************************************)
\* the loader has returned and the script is about to use the table
Loaded == pc = "sidebar" /\ source.present

\* the loader has just returned or raised
PastLoad == source.present /\ (pc = "sidebar" \/ err.at = "load")

T_total == <<"t","o","t","a","l">>
T_grand_total == <<"g","r","a","n","d"," ","t","o","t","a","l">>
T_not_defined == <<"n","o","t"," ","d","e","f","i","n","e","d">>
T_undefined == <<"u","n","d","e","f","i","n","e","d">>

IsMissing(c) == c.t = "blank" \/ (c.t = "text" /\ c.s = <<>>)

\* a name that is present and, where it is text, holds neither word
NameAccepted(c) ==
    /\ ~IsMissing(c)
    /\ c.t = "text" => (~Contains(Lower(c.s), T_total) /\ ~Contains(Lower(c.s), T_not_defined))

AllowedWidths == IF app = "Dashboard1" THEN {7, 8} ELSE {8}

\* the sheet of the current source as the loader takes it:
\*   fourth  its fourth row, which is taken as the header
\*   below   the rows under the fourth
\*   shift   1 when the first column is dropped before the columns are named
\*   width   the number of columns left
\*   kept    the rows under the fourth whose name is accepted
Given ==
    LET sheet == SheetOf(source)
        hasFourth == Len(sheet) >= 4
        fourth == IF hasFourth THEN sheet[4] ELSE <<>>
        below == IF Len(sheet) >= 5 THEN SubSeq(sheet, 5, Len(sheet)) ELSE <<>>
        shift == IF app = "Dashboard2"
                    \/ (app = "Dashboard1" /\ hasFourth /\ IsMissing(fourth[1]))
                 THEN 1 ELSE 0
    IN  [sheet |-> sheet, hasFourth |-> hasFourth, fourth |-> fourth, below |-> below,
         shift |-> shift, width |-> Len(fourth) - shift,
         kept |-> SelectSeq(below, LAMBDA row : NameAccepted(row[1 + shift]))]

FieldsByPosition(F) == IF F.width = 8 THEN Names8 ELSE Names7

\* the source cell of field c of the r-th kept row, by column position
InputCell(F, r, c) ==
    IF \E i \in 1..Len(FieldsByPosition(F)) : FieldsByPosition(F)[i] = c
    THEN F.kept[r][IndexOf(FieldsByPosition(F), c) + F.shift]
    ELSE Num(0, 0)

\* the loader can read the sheet: a fourth row (whose first cell is no
\* number, for Dashboard1 tests it as text), the right number of columns and,
\* if there are data rows, a name that is text
ShapeOk(F) ==
    /\ F.hasFourth
    /\ app = "Dashboard1" => F.fourth[1].t # "num"
    /\ F.width \in AllowedWidths
    /\ \/ F.below = <<>>
       \/ \E i \in 1..Len(F.below) :
             F.below[i][1 + F.shift].t = "text" /\ F.below[i][1 + F.shift].s # <<>>

\* the decimal value of a cell once the rupee sign and the commas are taken
\* out and the text is trimmed; 0 for what is no number
ValueStripped(c) ==
    IF c.t = "num" THEN c
    ELSE IF c.t # "text" THEN Num(0, 0)
    ELSE IF c.s = X_Rupees THEN Num(120000, 0)
    ELSE IF c.s = X_Plain \/ c.s = X_RupeesSmall THEN Num(12345, 1)
    ELSE IF c.s = X_Negative THEN Num(-5, 0)
    ELSE IF c.s = X_Padded THEN Num(42, 0)
    ELSE IF c.s = T_3000 THEN Num(3000, 0)
    ELSE IF c.s = X_Inf THEN PosInf
    ELSE IF c.s = X_NegInf THEN NegInf
    ELSE Num(0, 0)

\* the decimal value of a cell as it stands; 0 for what is no number, which
\* includes every text with a rupee sign or a comma
ValueAsIs(c) ==
    IF c.t = "text" /\ (\E i \in 1..Len(c.s) : c.s[i] \in {Rupee, Comma}) THEN Num(0, 0)
    ELSE ValueStripped(c)

(***************************************************************************)
(* C1                                                                      *)
(***************************************************************************)
\* C1, as claimed: no row of the cleaned table has a name that is missing,
\* empty or only whitespace, or that contains "total", "grand total",
\* "not defined" or "undefined" once trimmed and lower-cased; every other row
\* under the header is kept.
C1_AsClaimed ==
    LET F == Given IN
    Loaded =>
        /\ \A r \in 1..Len(df.rows) :
              LET n == df.rows[r][NameCol]
              IN  /\ ~IsMissing(n)
                  /\ n.t = "text" =>
                        /\ Strip(n.s) # <<>>
                        /\ \A p \in {T_total, T_grand_total, T_not_defined, T_undefined} :
                              ~Contains(Lower(Strip(n.s)), p)
        /\ \A i \in 1..Len(F.below) :
              NameAccepted(F.below[i][1 + F.shift])
                 => \E r \in 1..Len(df.rows) :
                       df.rows[r][NameCol] = F.below[i][1 + F.shift]

\* C1, amended: the rows of the cleaned table are exactly the rows under the
\* header whose name is present (not a missing or empty cell) and, where it
\* is text, contains neither "total" nor "not defined" in any casing, so
\* "Totally Awesome" is dropped; a name of only whitespace and a name
\* containing "undefined" are kept like any other.
C1_NamesFiltered ==
    LET F == Given IN
    Loaded =>
        /\ Len(df.rows) = Len(F.kept)
        /\ \A r \in 1..Len(df.rows) :
              /\ df.rows[r][NameCol] = F.kept[r][1 + F.shift]
              /\ NameAccepted(df.rows[r][NameCol])

\* a table that kept "Undefined" or a whitespace-only name while a total row
\* of the same sheet was dropped
C1_Witness ==
    LET F == Given IN
    /\ Loaded
    /\ Len(df.rows) < Len(F.below)
    /\ \E r \in 1..Len(df.rows) : df.rows[r][NameCol] \in {Text(N_Undefined), Text(N_Space)}

(***************************************************************************)
(* C2                                                                      *)
(***************************************************************************)
\* C2, as claimed: in every loader, each numeric field holds the decimal
\* value of its cell with the currency symbol and the commas removed and the
\* text trimmed, and 0 when that is no number.
C2_AsClaimed ==
    LET F == Given IN
    Loaded =>
        \A r \in 1..Len(df.rows) : \A c \in NumericCols :
            df.rows[r][c] = ValueStripped(InputCell(F, r, c))

\* C2, amended: clean_uploaded_data (Dashboard1) yields the decimal value of
\* the cell with the rupee sign and the commas removed and the text trimmed,
\* 0 when that is no number; load_lnl_data and load_kum_data parse the cell
\* as it stands, so a text with a rupee sign or a comma yields 0 there.  No
\* cell content makes a loader raise: a load fails only for the sheet's shape.
C2_Normalized ==
    LET F == Given IN
    /\ Loaded =>
          \A r \in 1..Len(df.rows) : \A c \in NumericCols :
              df.rows[r][c] = IF app = "Dashboard1"
                              THEN ValueStripped(InputCell(F, r, c))
                              ELSE ValueAsIs(InputCell(F, r, c))
    /\ (PastLoad /\ err.at = "load") => ~ShapeOk(F)

\* Dashboard1 has read "₹1,20,000.00" as 120000
C2_Witness ==
    LET F == Given IN
    /\ Loaded
    /\ app = "Dashboard1"
    /\ \E r \in 1..Len(df.rows) :
          /\ InputCell(F, r, "Room Revenue") = Text(X_Rupees)
          /\ df.rows[r]["Room Revenue"] = Num(120000, 0)

(***************************************************************************)
(* C3                                                                      *)
(***************************************************************************)
\* C3, as claimed: every numeric field of the cleaned table is a finite
\* number greater than or equal to 0.
C3_AsClaimed ==
    Loaded =>
        \A r \in 1..Len(df.rows) : \A c \in NumericCols :
            df.rows[r][c].t = "num" /\ df.rows[r][c].m >= 0

\* C3, amended: every numeric field of the cleaned table is a number, never
\* missing, NaN or text; it is negative only where the cell holds a negative
\* number or a text with a minus sign, and infinite only where the cell is an
\* infinity literal: these are kept as parsed, not coerced.
C3_Numbers ==
    LET F == Given IN
    Loaded =>
        \A r \in 1..Len(df.rows) : \A c \in NumericCols :
            LET v == df.rows[r][c]
                x == InputCell(F, r, c)
            IN  /\ v.t \in {"num", "inf", "ninf"}
                /\ (v.t = "num" /\ v.m < 0)
                      => \/ (x.t = "num" /\ x.m < 0)
                         \/ (x.t = "text" /\ \E i \in 1..Len(x.s) : x.s[i] = "-")
                /\ v.t \in {"inf", "ninf"}
                      => (x.t = "text" /\ Contains(Lower(x.s), T_inf))

\* a table holding a negative or an infinite figure next to a 0 made of a
\* cell that is no number
C3_Witness ==
    LET F == Given IN
    /\ Loaded
    /\ \E r \in 1..Len(df.rows) :
          /\ IsNegative(df.rows[r]["Room Revenue"]) \/ df.rows[r]["Room Revenue"].t = "inf"
          /\ df.rows[r]["Revenue%"] = Num(0, 0)
          /\ InputCell(F, r, "Revenue%") = Text(T_12pct)


(***************************************************************************)
(* C4                                                                      *)
(***************************************************************************)
FilledIn(row) == Cardinality({i \in 1..Len(row) : ~IsMissing(row[i])})

\* the offsets 0..4 at which the sheet has a row with five filled cells
QualifyingOffsets(F) == {o \in 0..4 : o < Len(F.sheet) /\ FilledIn(F.sheet[o + 1]) >= 5}

FirstQualifying(F) == CHOOSE o \in QualifyingOffsets(F) : \A x \in QualifyingOffsets(F) : o <= x

\* C4, as claimed: the load succeeds whenever one of the offsets 0..4 has a
\* row of five non-empty columns or more, it uses the first such offset as
\* the header (so every acceptable row under it is in the table), and it
\* fails when there is none.
C4_AsClaimed ==
    LET F == Given IN
    PastLoad =>
        IF QualifyingOffsets(F) = {} THEN err.at = "load"
        ELSE /\ err.at # "load"
             /\ LET o == FirstQualifying(F)
                    namePos == IF IsMissing(F.sheet[o + 1][1]) THEN 2 ELSE 1
                IN  \A i \in (o + 2)..Len(F.sheet) :
                       NameAccepted(F.sheet[i][namePos])
                          => \E r \in 1..Len(df.rows) : df.rows[r][NameCol] = F.sheet[i][namePos]

\* C4, amended: no offset is searched for.  The row at offset 3 is the header
\* whatever it holds and the rows under it are the data: the load succeeds
\* exactly when the sheet has that row, the columns left after the first
\* column is dropped (Dashboard1: if its label is empty; Dashboard2: always;
\* Dashboard3: never) number 8 (or 7, Dashboard1) and some data row has a
\* text name.  A header at offset 0, 1, 2, 4 or 5 is not found: its rows are
\* skipped, or read as data, and a header at offset 5 gives no error by itself.
C4_FixedOffset ==
    LET F == Given IN
    PastLoad =>
        /\ (err.at # "load") <=> ShapeOk(F)
        /\ df.present =>
              /\ Len(df.rows) <= Len(F.sheet) - 4
              /\ \A r \in 1..Len(df.rows) :
                    \E i \in 5..Len(F.sheet) : df.rows[r][NameCol] = F.sheet[i][1 + F.shift]

\* a sheet whose header is at offset 5 was loaded: its header row is a row of
\* the table
C4_Witness ==
    LET F == Given IN
    /\ Loaded
    /\ source.h = 5
    /\ QualifyingOffsets(F) = {}
    /\ \E r \in 1..Len(df.rows) : df.rows[r][NameCol] = Text(H_Name)

(***************************************************************************)
(* C5                                                                      *)
(***************************************************************************)
\* the eight columns of the report in some order, the name first, with the
\* header where the loader takes it
IsRearranged(src) ==
    /\ src.h = SkipRows
    /\ Len(src.layout) = 8
    /\ {src.layout[i].field : i \in 1..Len(src.layout)} = Columns
    /\ src.layout[1].field = NameCol

InCanonicalOrder(src) == [src EXCEPT !.layout = Layout8]

\* C5, as claimed: with the columns in any order and the labels in any
\* casing, the table is the one the sheet in canonical order gives.
C5_AsClaimed ==
    (Loaded /\ IsRearranged(source)) =>
        df.rows = Loader(app, InCanonicalOrder(source)).rows

\* C5, amended: the fields are given by column position, not by label: the
\* i-th column (after a dropped first column) becomes the i-th field of the
\* fixed list whatever its label says.  The table does not depend on the
\* text or casing of the labels, and it does depend on the order of the
\* columns: a field of the table holds what the table of the sheet in
\* canonical order holds in the field whose column stands at its position.
C5_Positional ==
    (Loaded /\ IsRearranged(source)) =>
        LET canon == Loader(app, InCanonicalOrder(source))
        IN  /\ canon.err = "none"
            /\ Len(canon.rows) = Len(df.rows)
            /\ \A r \in 1..Len(df.rows) : \A i \in 1..Len(Names8) :
                  df.rows[r][Names8[i]] = canon.rows[r][source.layout[i].field]

\* Nights and Pax exchanged in the sheet: the table has the guests as nights
C5_Witness ==
    /\ Loaded
    /\ IsRearranged(source)
    /\ source.layout[2].field = "Pax"
    /\ \E r \in 1..Len(df.rows) :
          df.rows[r]["Nights"] = Num(4, 0) /\ df.rows[r]["Pax"] = Num(10, 0)

(***************************************************************************)
(* C6                                                                      *)
(***************************************************************************)
FieldsOf(src) == {src.layout[i].field : i \in 1..Len(src.layout)}

\* C6, as claimed: a sheet with the name and the room revenue and any subset
\* of the six optional columns is cleaned, and each optional field it lacks
\* is 0 in every row.
C6_AsClaimed ==
    (PastLoad /\ app = "Dashboard1" /\ source.h = SkipRows /\ FieldsOf(source) \subseteq Columns
       /\ {NameCol, "Room Revenue"} \subseteq FieldsOf(source)
       /\ source.layout[1].field = NameCol /\ source.first[NameCol] = Text(N_Sharma)) =>
        /\ err.at # "load"
        /\ df.present =>
              \A r \in 1..Len(df.rows) : \A c \in NumericCols \ FieldsOf(source) :
                  df.rows[r][c] = Num(0, 0)

\* C6, amended: the one optional column a sheet may lack is Revenue%, and in
\* Dashboard1 only: a sheet of seven columns is read as name, nights,
\* occupancy, pax, room revenue, ARR, ARP in this order and Revenue% is 0 in
\* every row.  Any other number of columns, the two mandatory columns alone
\* included, is refused with a ValueError; Dashboard2 and Dashboard3 take
\* eight columns and nothing else.
C6_OnlyRevenuePct ==
    LET F == Given IN
    (PastLoad /\ F.hasFourth /\ (app = "Dashboard1" => F.fourth[1].t # "num")) =>
        /\ F.width \notin AllowedWidths => err = [kind |-> "ValueError", at |-> "load"]
        /\ (app = "Dashboard1" /\ F.width = 7) =>
              /\ ShapeOk(F) => err.at # "load"
              /\ pc = "sidebar" =>
                    \A r \in 1..Len(df.rows) :
                        /\ df.rows[r]["Revenue%"] = Num(0, 0)
                        /\ \A i \in 2..Len(Names7) :
                              df.rows[r][Names7[i]] = ValueStripped(F.kept[r][i + F.shift])

\* Dashboard1 has cleaned a seven-column report
C6_Witness ==
    LET F == Given IN
    /\ Loaded
    /\ app = "Dashboard1"
    /\ F.width = 7
    /\ "Revenue%" \notin FieldsOf(source)
    /\ \E r \in 1..Len(df.rows) :
          df.rows[r]["Revenue%"] = Num(0, 0) /\ df.rows[r]["ARR"] = Num(12000, 0)

(***************************************************************************)
(* C7                                                                      *)
(***************************************************************************)
\* a sheet of the columns Name, Qty, Comments with its header at offset 3
NoRevenueColumn(src) ==
    /\ src.present
    /\ src.h = SkipRows
    /\ FieldsOf(src) = {NameCol, "Qty", "Comments"}

\* C7, as claimed: a sheet with no revenue column ends in the recoverable
\* outcome AmbiguousRevenue, not in a failure.
C7_AsClaimed ==
    (PastLoad /\ NoRevenueColumn(source)) => err.kind = "AmbiguousRevenue"

\* C7, amended: a sheet of the columns Name, Qty, Comments is refused for its
\* number of columns: the loader raises ValueError, the script shows it with
\* st.error and shows nothing else, and no table exists.  There is no
\* AmbiguousRevenue outcome, no list of candidate columns and no override:
\* every further run on the same file ends the same way.
C7_Refused ==
    (PastLoad /\ NoRevenueColumn(source)) =>
        /\ err = [kind |-> "ValueError", at |-> "load"]
        /\ pc = "done"
        /\ ~df.present
        /\ rendered = {"error"}

\* the run on such a sheet has ended with the error on the page
C7_Witness ==
    /\ NoRevenueColumn(source)
    /\ app = "Dashboard1"
    /\ pc = "done"
    /\ err.kind = "ValueError"
    /\ uploads = 1

(***************************************************************************)
(* C8                                                                      *)
(***************************************************************************)
NormalizeOf(a, c) == IF a = "Dashboard1" THEN NormalizeUploaded(c) ELSE NormalizeFixed(c)

\* C8: normalizing a value that has been normalized gives the same number:
\* every numeric field of the cleaned table is left as it is by the
\* normalization that produced it.
C8_Idempotent ==
    Loaded =>
        \A r \in 1..Len(df.rows) : \A c \in NumericCols :
            NormalizeOf(app, df.rows[r][c]) = df.rows[r][c]

\* "₹1,234.50" and "1234.50" have both become 1234.5
C8_Witness ==
    LET F == Given IN
    /\ Loaded
    /\ app = "Dashboard1"
    /\ \E r \in 1..Len(df.rows) :
          /\ InputCell(F, r, "Room Revenue") \in {Text(X_RupeesSmall), Text(X_Plain)}
          /\ df.rows[r]["Room Revenue"] = Num(12345, 1)

(***************************************************************************)
(* C9                                                                      *)
(***************************************************************************)
\* C9: the table a run displays is the one a fresh, uncached load of the
\* current source gives.
C9_Fresh ==
    (pc # "load" /\ df.present) =>
        /\ Loader(app, source).err = "none"
        /\ df.rows = Loader(app, source).rows

(***************************************************************************)
(* C10                                                                     *)
(***************************************************************************)
\* C10: when the loader fails, the run ends there: no table exists, nothing
\* was filtered from one, and the page shows the error and nothing else.
C10_AllOrNothing ==
    err.at = "load" =>
        /\ pc = "done"
        /\ ~df.present
        /\ filtered_df = <<>>
        /\ rendered = {"error"}

\* a run that ended on an unsupported number of columns
C10_Witness ==
    /\ err = [kind |-> "ValueError", at |-> "load"]
    /\ source.present
    /\ pc = "done"
    /\ rendered = {"error"}

(***************************************************************************)
(* C11                                                                     *)
(***************************************************************************)
\* the rows of a frame whose name is among the selected ones, in the order
\* of the frame
RowsOfSelected(rows, sel) == SelectSeq(rows, LAMBDA row : row[NameCol] \in sel)

\* a and b hold the same rows, each as often
SameRows(a, b) ==
    /\ Len(a) = Len(b)
    /\ \A i \in 1..Len(a) :
          Cardinality({j \in 1..Len(a) : a[j] = a[i]})
             = Cardinality({j \in 1..Len(b) : b[j] = a[i]})

\* C11: the cleaned table holds the rows under the header that pass the
\* filter, one row each, in the order of the sheet (each with the cleaned
\* values of its own cells), and its rows stay in that order to the end of
\* the run; the selection is taken from it in the same order; the bar chart
\* is given a sorted copy while filtered_df stays as it was, and the table
\* shown is filtered_df in that order.
C11_OrderKept ==
    LET F == Given IN
    /\ (df.present /\ source.present) =>
          /\ Len(df.rows) = Len(F.kept)
          /\ \A r \in 1..Len(df.rows) : df.rows[r][NameCol] = F.kept[r][1 + F.shift]
    /\ Loaded =>
          \A r \in 1..Len(df.rows) : \A c \in NumericCols :
              df.rows[r][c] = NormalizeOf(app, InputCell(F, r, c))
    /\ "sidebar" \in rendered => filtered_df = RowsOfSelected(df.rows, selected)
    /\ "chart_bar" \in rendered => SameRows(filtered_df, fig_rev)
    /\ "table" \in rendered => shown_table = filtered_df

\* a run to its end on a sheet with a total row: the bar chart got the two
\* remaining rows in the other order, the table shows them in the order of
\* the sheet
C11_Witness ==
    LET F == Given IN
    /\ pc = "done"
    /\ "table" \in rendered
    /\ Len(F.below) = 3
    /\ Len(shown_table) = 2
    /\ shown_table = df.rows
    /\ shown_table[1][NameCol] = F.below[1][1 + F.shift]
    /\ fig_rev = <<shown_table[2], shown_table[1]>>

(***************************************************************************)
(* C12                                                                     *)
(***************************************************************************)
\* a text that starts with the rupee sign and ends with "." and two digits
IsRupeeTwoDecimals(s) ==
    /\ Len(s) >= 5
    /\ s[1] = Rupee
    /\ s[Len(s) - 2] = "."
    /\ IsDigit(s[Len(s) - 1])
    /\ IsDigit(s[Len(s)])

\* the KPI section of Dashboard1 has been run on the selection
KpiSectionRan == app = "Dashboard1" /\ "sidebar" \in rendered /\ pc # "kpi"

\* C12: in Dashboard1, for every cleaned table and every selection, the empty
\* one included, the KPI section completes without an exception: the four
\* cards are shown, revenue, nights and pax are 0 for an empty selection, and
\* the two amounts format_inr was given (the total revenue and the mean ARR,
\* NaN for an empty selection) are shown as a text that starts with the
\* rupee sign and ends with two decimals.
C12_AsClaimed ==
    KpiSectionRan =>
        /\ err.at # "kpi"
        /\ {"card_revenue", "card_nights", "card_arr", "card_pax"} \subseteq rendered
        /\ selected = {} =>
              /\ kpi.total_revenue = Num(0, 0)
              /\ kpi.total_nights = 0
              /\ kpi.total_pax = 0
        /\ IsRupeeTwoDecimals(kpi_text.revenue)
        /\ IsRupeeTwoDecimals(kpi_text.arr)

====
